---- MODULE Spec2Model ----
(***************************************************************************)
(* A model of qiime2/core/archive/archiver.py: the archive backends        *)
(* (_ZipArchive, _NoOpArchive, ArchiveCheck), the format registry and the  *)
(* Archiver lifecycle (peek, extract, load, load_raw, from_data, handle    *)
(* finalization) over the cache it is a client of.                         *)
(***************************************************************************)
EXTENDS Integers, Sequences, FiniteSets, TLC

VARIABLES
    pool,       \* cache.process_pool: the set of pool entries (temporary slots, aliases)
    data,       \* cache.data: the uuids that have a stable working copy
    nextAlias,  \* the number the cache gives its next alias
    handles,    \* every Archiver object constructed so far, in order
    released,   \* per pool key: how often cache._deallocate was invoked for it
    dest,       \* the uuid directories that exist under the extract destination
    disk,       \* the files around a mount destination, and the backend calls on it
    pc,         \* the position of the (single, synchronous) caller: "idle", a
                \* step of the call in progress, or "done" (a call is just over)
    call,       \* the locals of the call in progress
    result      \* what the call that is just over gives its caller

vars == <<pool, data, nextAlias, handles, released, dest, disk, pc, call, result>>

----------------------------------------------------------------------------
(* Bounds of the model *)

\* aliases the cache hands out in one run
MaxAlias == 2
\* in-process references to one handle
MaxRefs == 2

----------------------------------------------------------------------------
(* Names.  A name is the sequence of its characters (cut into a first       *)
(* character and a rest), so that startswith('.') is computed.              *)

U1 == <<"7", "70509e6">>
U2 == <<"c", "0ffee00">>
NotUuid == <<"x", "yz">>
HiddenName == <<".", "git">>
DataName == <<"d", "ata">>
HiddenFile == <<".", "DS">>

\* _Archive.VERSION_FILE
VERSION_FILE == <<"V", "ERSION">>

RootNames == {U1, U2, NotUuid, HiddenName}

\* str.startswith('.')
StartsWithDot(name) == Len(name) > 0 /\ name[1] = "."

\* qiime2.core.util.is_uuid4
is_uuid4(name) == name \in {U1, U2}

----------------------------------------------------------------------------
(* VERSION contents.  A content is the list of its segments when split on  *)
(* '\n'; a segment is the list of its stripped fields when split on ':'.   *)

NoFile == << <<"<absent>">> >>

VGood5 == << <<"QIIME 2">>, <<"archive", "5">>, <<"framework", "2023.2.0">>, <<"">> >>
VGood0 == << <<"QIIME 2">>, <<"archive", "0">>, <<"framework", "2.0.5">>, <<"">> >>
VFuture == << <<"QIIME 2">>, <<"archive", "99">>, <<"framework", "2099.1.0">>, <<"">> >>
VNoNewline == << <<"QIIME 2">>, <<"archive", "5">>, <<"framework", "2023.2.0">> >>
VBadHeader == << <<"QIIME 3">>, <<"archive", "5">>, <<"framework", "2023.2.0">>, <<"">> >>
VNoColon == << <<"QIIME 2">>, <<"archive 5">>, <<"framework", "2023.2.0">>, <<"">> >>
VExtraLine == << <<"QIIME 2">>, <<"archive", "5">>, <<"framework", "2023.2.0">>, <<"">>, <<"">> >>

VersionContents == {VGood5, VGood0, VFuture, VNoNewline, VBadHeader, VNoColon, VExtraLine}

\* qiime2.__version__, the framework version of the running installation
FrameworkVersion == "2023.2.0"

----------------------------------------------------------------------------
(* Errors and outcomes *)

Err(type, msg, a1, a2) == [type |-> type, msg |-> msg, a1 |-> a1, a2 |-> a2]
NoErr == Err("", "", "", "")

Raise(e) == [ok |-> FALSE, err |-> e, val |-> <<>>]
Return(v) == [ok |-> TRUE, err |-> NoErr, val |-> v]

----------------------------------------------------------------------------
(* What a filepath can name *)

NoPath == [kind |-> "none", name |-> <<>>, entries |-> <<>>]
PlainFile == [kind |-> "file", name |-> <<"r", "eadme">>, entries |-> <<>>]

\* a ZIP file whose entries are <root>/VERSION (when given) and <root>/data
\* for each of its roots
ZipOf(roots, vc) ==
    LET names == {<<r, DataName>> : r \in roots}
                 \cup (IF vc = NoFile THEN {} ELSE {<<r, VERSION_FILE>> : r \in roots})
    IN  [kind |-> "zip", name |-> <<"a", ".qza">>,
         entries |-> [n \in names |-> IF n[2] = VERSION_FILE THEN vc ELSE << <<"bytes">> >>]]

\* a directory named `name` holding VERSION (when given), data and a hidden file
DirOf(name, vc) ==
    LET names == {<<DataName>>, <<HiddenFile>>}
                 \cup (IF vc = NoFile THEN {} ELSE {<<VERSION_FILE>>})
    IN  [kind |-> "dir", name |-> name,
         entries |-> [n \in names |-> IF n[1] = VERSION_FILE THEN vc ELSE << <<"bytes">> >>]]

----------------------------------------------------------------------------
(* The archive backends *)

\* _ZipArchive.relative_iterdir with relpath '': the first part of every entry
ZipArchive_relative_iterdir(fs) ==
    {n[1] : n \in {m \in DOMAIN fs.entries : Len(m) > 0}}

\* _Archive._get_uuid without its check for several roots
Archive_get_uuid_AnyRoot(fs) ==
    LET roots == {r \in ZipArchive_relative_iterdir(fs) : ~StartsWithDot(r)}
    IN  IF Cardinality(roots) = 0
        THEN Raise(Err("ValueError", "no visible root directory", "", ""))
        ELSE LET uuid == CHOOSE r \in roots : TRUE
             IN  IF ~is_uuid4(uuid)
                 THEN Raise(Err("ValueError", "root is not a version 4 UUID", "", ""))
                 ELSE Return(uuid)

\* _Archive._get_uuid
Archive_get_uuid(fs) ==
    LET roots == {r \in ZipArchive_relative_iterdir(fs) : ~StartsWithDot(r)}
    IN  IF Cardinality(roots) = 0
        THEN Raise(Err("ValueError", "no visible root directory", "", ""))
        ELSE IF Cardinality(roots) > 1
        THEN Raise(Err("ValueError", "multiple root directories", "", ""))
        ELSE LET uuid == CHOOSE r \in roots : TRUE
             IN  IF ~is_uuid4(uuid)
                 THEN Raise(Err("ValueError", "root is not a version 4 UUID", "", ""))
                 ELSE Return(uuid)

\* _NoOpArchive._get_uuid
NoOpArchive_get_uuid(fs) == Return(fs.name)

\* ArchiveCheck._get_uuid
ArchiveCheck_get_uuid(fs) == Return(fs.name)

MalformedVersion ==
    Err("ValueError", "no correctly formatted VERSION file", "", "")

\* _ZipArchive.open / _NoOpArchive.open / ArchiveCheck.open of VERSION
OpenVersion(fs, uuid) ==
    LET relpath == IF fs.kind = "zip" THEN <<uuid, VERSION_FILE>> ELSE <<VERSION_FILE>>
    IN  IF fs.kind \in {"zip", "dir"} /\ relpath \in DOMAIN fs.entries
        THEN Return(fs.entries[relpath])
        ELSE Raise(Err("KeyError", "no such entry", "", ""))

\* _Archive._get_versions
Archive_get_versions(fs, uuid) ==
    LET fh == OpenVersion(fs, uuid)
    IN  IF ~fh.ok THEN Raise(MalformedVersion)
        ELSE LET segs == fh.val
             IN  IF Len(segs) # 4 THEN Raise(MalformedVersion)
                 ELSE IF segs[1] # <<"QIIME 2">> THEN Raise(MalformedVersion)
                 ELSE IF Len(segs[2]) < 2 \/ Len(segs[3]) < 2 THEN Raise(MalformedVersion)
                 ELSE Return(<<segs[2][2], segs[3][2]>>)

\* _Archive.__init__, for the class `cls`
Archive_init(cls, fs) ==
    LET u == CASE cls = "_ZipArchive" -> Archive_get_uuid(fs)
               [] cls = "_NoOpArchive" -> NoOpArchive_get_uuid(fs)
               [] OTHER -> ArchiveCheck_get_uuid(fs)
    IN  IF ~u.ok THEN u
        ELSE LET v == Archive_get_versions(fs, u.val)
             IN  IF ~v.ok THEN v
                 ELSE Return([cls |-> cls, uuid |-> u.val, version |-> v.val[1],
                              framework_version |-> v.val[2]])

\* Archiver.get_archive
get_archive(fs) ==
    IF fs.kind = "none" THEN Raise(Err("ValueError", "does not exist", "", ""))
    ELSE IF fs.kind = "zip" THEN Archive_init("_ZipArchive", fs)
    ELSE IF fs.kind = "dir" THEN Archive_init("_NoOpArchive", fs)
    ELSE Raise(Err("ValueError", "is not a QIIME archive", "", ""))

----------------------------------------------------------------------------
(* The format registry *)

\* Archiver.CURRENT_FORMAT_VERSION
CURRENT_FORMAT_VERSION == "5"

\* Archiver._FORMAT_REGISTRY
FORMAT_REGISTRY ==
    [v \in {"0", "1", "2", "3", "4", "5"} |-> <<"qiime2.core.archive.format.v", v>>]

\* the value Python's None
None == <<"None", "">>

\* get_format_class letting the registry's KeyError out
get_format_class_KeyError(version, importFails) ==
    IF version \notin {"0", "1", "2", "3", "4", "5"} THEN Raise(Err("KeyError", version, "", ""))
    ELSE IF importFails THEN Raise(Err("ImportError", "import", "", ""))
    ELSE Return(<<"qiime2.core.archive.format.v", version>>)

\* Archiver.get_format_class; importFails: importlib.import_module raises
get_format_class(version, importFails) ==
    IF version \notin DOMAIN FORMAT_REGISTRY THEN Return(None)
    ELSE IF importFails THEN Raise(Err("ImportError", "import", "", ""))
    ELSE Return(FORMAT_REGISTRY[version])

\* Archiver._futuristic_archive_error: the error it raises
futuristic_archive_error(archive) ==
    Err("ValueError", "was created by a QIIME the installed framework cannot interpret",
        archive.framework_version, archive.version)

----------------------------------------------------------------------------
(* The cache, as far as the Archiver uses it *)

NoKey == [kind |-> "none", uuid |-> <<>>, n |-> 0]
TmpSlot(u) == [kind |-> "tmp", uuid |-> u, n |-> 0]
AliasKey(u, k) == [kind |-> "alias", uuid |-> u, n |-> k]

Path(area, name) == [area |-> area, name |-> name]
NoPathValue == Path("", <<>>)

AliasKeys == {AliasKey(u, k) : u \in RootNames, k \in 1..(MaxAlias + 1)}

\* stable working copies are kept while an alias refers to them
garbage_collection(p, d) ==
    {u \in d : \E e \in p : e.kind = "alias" /\ e.uuid = u}

\* cache.process_pool._allocate(uuid): the pool after it (it returns TmpPath)
pool_allocate(p, u) == p \cup {TmpSlot(u)}

\* cache._rename_to_data(uuid, path): the pool after it; it returns
\* (AliasKey(u, nextAlias), Path("data", u))
rename_to_data_pool(p, u, k) == (p \ {TmpSlot(u)}) \cup {AliasKey(u, k)}

\* cache._alias(uuid): the pool after it; it returns AliasKey(u, nextAlias)
alias_pool(p, u, k) == p \cup {AliasKey(u, k)}

\* cache.process_pool.remove(key) and cache._deallocate(key): the pool after
pool_remove(p, key) == p \ {key}

----------------------------------------------------------------------------
(* Calls *)

NoArchive == [cls |-> "", uuid |-> <<>>, version |-> "", framework_version |-> ""]

\* no mount destination in use
NoDisk == [fs |-> NoPath, tree |-> <<>>, filepath |-> <<>>, files |-> <<>>, calls |-> <<>>]

\* the locals of a call, and what it gave its caller once it is over
Frame(op, fs, fail) ==
    [op |-> op, fs |-> fs, fail |-> fail,
     archive |-> NoArchive,
     path |-> NoPathValue,          \* `path`
     hasAlias |-> FALSE,            \* 'process_alias' in vars()
     process_alias |-> NoKey,       \* `process_alias`
     data_path |-> NoPathValue,     \* `data_path`
     made |-> {},                   \* the pool keys the cache gave this call
     trace |-> <<>>,                \* the collaborator calls made, in order
     raised |-> NoErr,              \* the error first raised in the call
     status |-> "running",          \* "running", "returned" or "raised"
     err |-> NoErr,                 \* the error that reached the caller
     handle |-> 0,                  \* the index of the handle returned
     value |-> NoPathValue]         \* the value returned, for peek and extract

NoCall == Frame("none", NoPath, "none")

\* the error a failing collaborator raises
Injected(point) == Err("OSError", point, "", "")

Returned(f, h, v) == [f EXCEPT !.status = "returned", !.handle = h, !.value = v]
Raised(f, e) == [f EXCEPT !.status = "raised", !.err = e]

\* the files a caller may name
Paths ==
    {NoPath, PlainFile,
     ZipOf({U1}, VGood5), ZipOf({U2, HiddenName}, VGood5), ZipOf({U1}, VFuture),
     ZipOf({U1, U2}, VGood5), ZipOf({U1}, VBadHeader),
     DirOf(U1, VGood5), DirOf(NotUuid, VFuture)}

\* the caller takes what the call gave it
Deliver ==
    /\ pc = "done"
    /\ pc' = "idle"
    /\ result' = NoCall
    /\ UNCHANGED <<pool, data, nextAlias, handles, released, dest, disk, call>>

----------------------------------------------------------------------------
(* Handles *)

\* Archiver.__init__: the object constructed, its finalizer registered
Archiver_init(path, process_alias, fmt, uuid) ==
    [path |-> path, process_alias |-> process_alias, fmt |-> fmt, uuid |-> uuid,
     refs |-> 1, finalizer |-> "alive"]

----------------------------------------------------------------------------
(* Archiver.load *)

LoadFails == {"none", "allocate", "import", "mount", "rename", "construct"}

\* load allocating the temporary slot before it looks at the file
LoadCall_AllocateFirst(fs, fail) ==
    /\ pc = "idle"
    /\ nextAlias <= MaxAlias
    /\ LET a == get_archive(fs)
           f == Frame("load", fs, fail)
       IN  IF a.ok
           THEN /\ call' = [f EXCEPT !.archive = a.val]
                /\ pc' = "load_allocate"
                /\ result' = NoCall
                /\ pool' = pool
           ELSE /\ call' = NoCall
                /\ pc' = "done"
                /\ result' = Raised([f EXCEPT !.raised = a.err], a.err)
                /\ pool' = pool_allocate(pool, fs.name)
    /\ UNCHANGED <<data, nextAlias, handles, released, dest, disk>>

\* load: get_archive(filepath)
LoadCall(fs, fail) ==
    /\ pc = "idle"
    /\ nextAlias <= MaxAlias
    /\ LET a == get_archive(fs)
           f == Frame("load", fs, fail)
       IN  IF a.ok
           THEN /\ call' = [f EXCEPT !.archive = a.val]
                /\ pc' = "load_allocate"
                /\ result' = NoCall
           ELSE /\ call' = NoCall
                /\ pc' = "done"
                /\ result' = Raised([f EXCEPT !.raised = a.err], a.err)
    /\ UNCHANGED <<pool, data, nextAlias, handles, released, dest, disk>>

\* load: path, cache = cls._make_temp_path(archive.uuid), outside the try
LoadAllocate ==
    /\ pc = "load_allocate"
    /\ IF call.fail = "allocate"
       THEN /\ result' = Raised([call EXCEPT !.raised = Injected("allocate")],
                               Injected("allocate"))
            /\ call' = NoCall
            /\ pc' = "done"
            /\ pool' = pool
       ELSE /\ pool' = pool_allocate(pool, call.archive.uuid)
            /\ call' = [call EXCEPT !.path = Path("pool", call.archive.uuid),
                                    !.made = @ \cup {TmpSlot(call.archive.uuid)},
                                    !.trace = Append(@, "allocate")]
            /\ pc' = "load_resolve"
            /\ result' = result
    /\ UNCHANGED <<data, nextAlias, handles, released, dest, disk>>

\* load renaming right after the format is resolved, nothing mounted
LoadResolve_NoMount ==
    /\ pc = "load_resolve"
    /\ LET F == get_format_class(call.archive.version, call.fail = "import")
       IN  IF ~F.ok
           THEN /\ call' = [call EXCEPT !.raised = F.err]
                /\ pc' = "load_except"
           ELSE IF F.val = None
           THEN /\ call' = [call EXCEPT !.raised = futuristic_archive_error(call.archive)]
                /\ pc' = "load_except"
           ELSE /\ call' = [call EXCEPT !.trace = Append(@, "resolve")]
                /\ pc' = "load_rename"
    /\ UNCHANGED <<pool, data, nextAlias, handles, released, dest, disk, result>>

\* load: Format = cls.get_format_class(archive.version), None is an error
LoadResolve ==
    /\ pc = "load_resolve"
    /\ LET F == get_format_class(call.archive.version, call.fail = "import")
       IN  IF ~F.ok
           THEN /\ call' = [call EXCEPT !.raised = F.err]
                /\ pc' = "load_except"
           ELSE IF F.val = None
           THEN /\ call' = [call EXCEPT !.raised = futuristic_archive_error(call.archive)]
                /\ pc' = "load_except"
           ELSE /\ call' = [call EXCEPT !.trace = Append(@, "resolve")]
                /\ pc' = "load_mount"
    /\ UNCHANGED <<pool, data, nextAlias, handles, released, dest, disk, result>>

\* load: archive.mount(path)
LoadMount ==
    /\ pc = "load_mount"
    /\ IF call.fail = "mount"
       THEN /\ call' = [call EXCEPT !.raised = Injected("mount")]
            /\ pc' = "load_except"
       ELSE /\ call' = [call EXCEPT !.trace = Append(@, "mount")]
            /\ pc' = "load_rename"
    /\ UNCHANGED <<pool, data, nextAlias, handles, released, dest, disk, result>>

\* load: process_alias, data_path = cache._rename_to_data(archive.uuid, path)
LoadRename ==
    /\ pc = "load_rename"
    /\ IF call.fail = "rename"
       THEN /\ call' = [call EXCEPT !.raised = Injected("rename")]
            /\ pc' = "load_except"
            /\ UNCHANGED <<pool, data, nextAlias>>
       ELSE LET u == call.archive.uuid
                alias == AliasKey(u, nextAlias)
            IN  /\ pool' = rename_to_data_pool(pool, u, nextAlias)
                /\ data' = data \cup {u}
                /\ nextAlias' = nextAlias + 1
                /\ call' = [call EXCEPT !.hasAlias = TRUE,
                                        !.process_alias = alias,
                                        !.data_path = Path("data", u),
                                        !.made = @ \cup {alias},
                                        !.trace = Append(@, "rename")]
                /\ pc' = "load_construct"
    /\ UNCHANGED <<handles, released, dest, disk, result>>

\* load constructing the handle over the temporary path
LoadHandle_TmpPath(f) ==
    Archiver_init(f.path, f.process_alias, f.archive.version, f.archive.uuid)

\* load: cls(data_path, process_alias, Format(rec), cache)
LoadHandle(f) ==
    Archiver_init(f.data_path, f.process_alias, f.archive.version, f.archive.uuid)

\* load: ref = cls(data_path, process_alias, Format(rec), cache); return ref
LoadConstruct ==
    /\ pc = "load_construct"
    /\ IF call.fail = "construct"
       THEN /\ call' = [call EXCEPT !.raised = Injected("construct")]
            /\ pc' = "load_except"
            /\ UNCHANGED <<handles, result>>
       ELSE /\ handles' = Append(handles, LoadHandle(call))
            /\ result' = Returned([call EXCEPT !.trace = Append(@, "construct")],
                                  Len(handles) + 1, NoPathValue)
            /\ call' = NoCall
            /\ pc' = "done"
    /\ UNCHANGED <<pool, data, nextAlias, released, dest, disk>>

\* Archiver._destroy_temp_path(key), applied to the pool
Archiver_destroy_temp_path(p, key) == pool_remove(p, key)

\* load's except block destroying the temporary path only
LoadRollback_TmpOnly(p, f) == Archiver_destroy_temp_path(p, TmpSlot(f.archive.uuid))

\* load's except block destroying every pool entry of the uuid
LoadRollback_WholeUuid(p, f) == {e \in p : e.uuid # f.archive.uuid}

\* load's except block: the pool after the cleanup
LoadRollback(p, f) ==
    LET p1 == Archiver_destroy_temp_path(p, TmpSlot(f.archive.uuid))
    IN  IF f.hasAlias THEN Archiver_destroy_temp_path(p1, f.process_alias) ELSE p1

\* load's except block without its test for process_alias
LoadRollbackCalls_Unguarded(f) == <<"remove_tmp", "remove_alias">>

\* load's except block: the cleanup calls it makes, in order
LoadRollbackCalls(f) ==
    IF f.hasAlias THEN <<"remove_tmp", "remove_alias">> ELSE <<"remove_tmp">>

\* load's except block raising an error of its own
LoadReraise_Replaced(f) == Err("RuntimeError", "load failed", "", "")

\* load's except block: the error its bare `raise` raises
LoadReraise(f) == f.raised

\* load: except: destroy the paths; raise
LoadExcept ==
    /\ pc = "load_except"
    /\ pool' = LoadRollback(pool, call)
    /\ data' = garbage_collection(pool', data)
    /\ result' = Raised([call EXCEPT !.trace = @ \o LoadRollbackCalls(call)],
                        LoadReraise(call))
    /\ call' = NoCall
    /\ pc' = "done"
    /\ UNCHANGED <<nextAlias, handles, released, dest, disk>>

----------------------------------------------------------------------------
(* Archiver.from_data *)

FromDataFails == {"none", "allocate", "setup", "import", "write", "rename", "construct"}

\* uuid4() gives a uuid nothing in the cache bears
FreshUuids == {u \in {U1, U2} : u \notin data /\ \A e \in pool : e.uuid # u}

\* from_data: uuid = _uuid.uuid4(); path, cache = cls._make_temp_path(uuid),
\* outside the try
FromDataCall(u, fail) ==
    /\ pc = "idle"
    /\ nextAlias <= MaxAlias
    /\ u \in FreshUuids
    /\ LET f == [Frame("from_data", NoPath, fail) EXCEPT
                    !.archive = [cls |-> "", uuid |-> u,
                                 version |-> CURRENT_FORMAT_VERSION,
                                 framework_version |-> FrameworkVersion]]
       IN  IF fail = "allocate"
           THEN /\ result' = Raised([f EXCEPT !.raised = Injected("allocate")],
                                   Injected("allocate"))
                /\ call' = NoCall
                /\ pc' = "done"
                /\ pool' = pool
           ELSE /\ pool' = pool_allocate(pool, u)
                /\ call' = [f EXCEPT !.path = Path("pool", u),
                                     !.made = {TmpSlot(u)},
                                     !.trace = <<"allocate">>]
                /\ pc' = "from_data_setup"
                /\ result' = NoCall
    /\ UNCHANGED <<data, nextAlias, handles, released, dest, disk>>

\* from_data: rec = _Archive.setup(uuid, path, CURRENT_FORMAT_VERSION, __version__)
FromDataSetup ==
    /\ pc = "from_data_setup"
    /\ IF call.fail = "setup"
       THEN /\ call' = [call EXCEPT !.raised = Injected("setup")]
            /\ pc' = "from_data_except"
       ELSE /\ call' = [call EXCEPT !.trace = Append(@, "setup")]
            /\ pc' = "from_data_write"
    /\ UNCHANGED <<pool, data, nextAlias, handles, released, dest, disk, result>>

\* from_data: Format = cls.get_format_class(CURRENT_FORMAT_VERSION);
\* Format.write(rec, type, format, data_initializer, provenance_capture)
FromDataWrite ==
    /\ pc = "from_data_write"
    /\ LET F == get_format_class(CURRENT_FORMAT_VERSION, call.fail = "import")
       IN  IF ~F.ok
           THEN /\ call' = [call EXCEPT !.raised = F.err]
                /\ pc' = "from_data_except"
           ELSE IF F.val = None
           \* None.write: an AttributeError
           THEN /\ call' = [call EXCEPT !.raised = Err("AttributeError", "write", "", "")]
                /\ pc' = "from_data_except"
           ELSE IF call.fail = "write"
           THEN /\ call' = [call EXCEPT !.raised = Injected("write")]
                /\ pc' = "from_data_except"
           ELSE /\ call' = [call EXCEPT !.trace = Append(@, "write")]
                /\ pc' = "from_data_rename"
    /\ UNCHANGED <<pool, data, nextAlias, handles, released, dest, disk, result>>

\* from_data: process_alias, data_path = cache._rename_to_data(uuid, path)
FromDataRename ==
    /\ pc = "from_data_rename"
    /\ IF call.fail = "rename"
       THEN /\ call' = [call EXCEPT !.raised = Injected("rename")]
            /\ pc' = "from_data_except"
            /\ UNCHANGED <<pool, data, nextAlias>>
       ELSE LET u == call.archive.uuid
                alias == AliasKey(u, nextAlias)
            IN  /\ pool' = rename_to_data_pool(pool, u, nextAlias)
                /\ data' = data \cup {u}
                /\ nextAlias' = nextAlias + 1
                /\ call' = [call EXCEPT !.hasAlias = TRUE,
                                        !.process_alias = alias,
                                        !.data_path = Path("data", u),
                                        !.made = @ \cup {alias},
                                        !.trace = Append(@, "rename")]
                /\ pc' = "from_data_construct"
    /\ UNCHANGED <<handles, released, dest, disk, result>>

\* from_data: cls(data_path, process_alias, Format(rec), cache)
FromDataHandle(f) ==
    Archiver_init(f.data_path, f.process_alias, f.archive.version, f.archive.uuid)

\* from_data: ref = cls(data_path, process_alias, Format(rec), cache); return ref
FromDataConstruct ==
    /\ pc = "from_data_construct"
    /\ IF call.fail = "construct"
       THEN /\ call' = [call EXCEPT !.raised = Injected("construct")]
            /\ pc' = "from_data_except"
            /\ UNCHANGED <<handles, result>>
       ELSE /\ handles' = Append(handles, FromDataHandle(call))
            /\ result' = Returned([call EXCEPT !.trace = Append(@, "construct")],
                                  Len(handles) + 1, NoPathValue)
            /\ call' = NoCall
            /\ pc' = "done"
    /\ UNCHANGED <<pool, data, nextAlias, released, dest, disk>>

\* from_data's except block destroying the temporary path only
FromDataRollback_TmpOnly(p, f) == Archiver_destroy_temp_path(p, TmpSlot(f.archive.uuid))

\* from_data's except block: the pool after the cleanup
FromDataRollback(p, f) ==
    LET p1 == Archiver_destroy_temp_path(p, TmpSlot(f.archive.uuid))
    IN  IF f.hasAlias THEN Archiver_destroy_temp_path(p1, f.process_alias) ELSE p1

\* from_data's except block: the cleanup calls it makes, in order
FromDataRollbackCalls(f) ==
    IF f.hasAlias THEN <<"remove_tmp", "remove_alias">> ELSE <<"remove_tmp">>

\* from_data's except block: the error its bare `raise` raises
FromDataReraise(f) == f.raised

\* from_data: except: destroy the paths; raise
FromDataExcept ==
    /\ pc = "from_data_except"
    /\ pool' = FromDataRollback(pool, call)
    /\ data' = garbage_collection(pool', data)
    /\ result' = Raised([call EXCEPT !.trace = @ \o FromDataRollbackCalls(call)],
                        FromDataReraise(call))
    /\ call' = NoCall
    /\ pc' = "done"
    /\ UNCHANGED <<nextAlias, handles, released, dest, disk>>

----------------------------------------------------------------------------
(* Archiver.load_raw *)

LoadRawFails == {"none", "alias", "import", "mount", "construct"}

\* load_raw: archive = cls.get_archive(filepath)
LoadRawCall(fs, fail) ==
    /\ pc = "idle"
    /\ nextAlias <= MaxAlias
    /\ LET a == get_archive(fs)
           f == Frame("load_raw", fs, fail)
       IN  IF a.ok
           THEN /\ call' = [f EXCEPT !.archive = a.val]
                /\ pc' = "load_raw_alias"
                /\ result' = NoCall
           ELSE /\ call' = NoCall
                /\ pc' = "done"
                /\ result' = Raised([f EXCEPT !.raised = a.err], a.err)
    /\ UNCHANGED <<pool, data, nextAlias, handles, released, dest, disk>>

\* load_raw: process_alias = cache._alias(str(archive.uuid))
LoadRawAlias ==
    /\ pc = "load_raw_alias"
    /\ IF call.fail = "alias"
       THEN /\ result' = Raised([call EXCEPT !.raised = Injected("alias")],
                               Injected("alias"))
            /\ call' = NoCall
            /\ pc' = "done"
            /\ UNCHANGED <<pool, nextAlias>>
       ELSE LET alias == AliasKey(call.archive.uuid, nextAlias)
            IN  /\ pool' = alias_pool(pool, call.archive.uuid, nextAlias)
                /\ nextAlias' = nextAlias + 1
                /\ call' = [call EXCEPT !.hasAlias = TRUE,
                                        !.process_alias = alias,
                                        !.made = @ \cup {alias},
                                        !.trace = Append(@, "alias")]
                /\ pc' = "load_raw_resolve"
                /\ result' = result
    /\ UNCHANGED <<data, handles, released, dest, disk>>

\* load_raw: Format = cls.get_format_class(archive.version), None is an error;
\* nothing catches it
LoadRawResolve ==
    /\ pc = "load_raw_resolve"
    /\ LET F == get_format_class(call.archive.version, call.fail = "import")
           e == IF ~F.ok THEN F.err ELSE futuristic_archive_error(call.archive)
       IN  IF ~F.ok \/ F.val = None
           THEN /\ result' = Raised([call EXCEPT !.raised = e], e)
                /\ call' = NoCall
                /\ pc' = "done"
           ELSE /\ call' = [call EXCEPT !.trace = Append(@, "resolve")]
                /\ pc' = "load_raw_construct"
                /\ result' = result
    /\ UNCHANGED <<pool, data, nextAlias, handles, released, dest, disk>>

\* load_raw: path = pathlib.Path(filepath); rec = archive.mount(path);
\* ref = cls(path, process_alias, Format(rec), cache); return ref
LoadRawConstruct ==
    /\ pc = "load_raw_construct"
    /\ IF call.fail \in {"mount", "construct"}
       THEN /\ result' = Raised([call EXCEPT !.raised = Injected(call.fail)],
                               Injected(call.fail))
            /\ handles' = handles
       ELSE /\ handles' = Append(handles,
                                 Archiver_init(Path("fs", call.fs.name), call.process_alias,
                                               call.archive.version, call.archive.uuid))
            /\ result' = Returned([call EXCEPT !.path = Path("fs", call.fs.name),
                                               !.trace = @ \o <<"mount", "construct">>],
                                  Len(handles) + 1, NoPathValue)
    /\ call' = NoCall
    /\ pc' = "done"
    /\ UNCHANGED <<pool, data, nextAlias, released, dest, disk>>

----------------------------------------------------------------------------
(* Archiver.peek and Archiver.extract *)

PeekFails == {"none", "import", "load_metadata"}

\* Archiver.peek: what it gives its caller
peek(fs, fail) ==
    LET a == get_archive(fs)
    IN  IF ~a.ok THEN a
        ELSE LET F == get_format_class(a.val.version, fail = "import")
             IN  IF ~F.ok THEN F
                 ELSE IF F.val = None THEN Raise(futuristic_archive_error(a.val))
                 ELSE IF fail = "load_metadata" THEN Raise(Injected("load_metadata"))
                 ELSE Return(Path("metadata", a.val.uuid))

\* peek allocating a temporary slot as load does
peek_pool_Allocating(p, fs) ==
    LET a == get_archive(fs)
    IN  IF a.ok THEN pool_allocate(p, a.val.uuid) ELSE p

\* Archiver.peek: the pool after it
peek_pool(p, fs) == p

Peek(fs, fail) ==
    /\ pc = "idle"
    /\ LET r == peek(fs, fail)
           a == get_archive(fs)
           f == [Frame("peek", fs, fail) EXCEPT
                    !.archive = IF a.ok THEN a.val ELSE NoArchive,
                    !.raised = r.err]
       IN  result' = IF r.ok THEN Returned(f, 0, r.val) ELSE Raised(f, r.err)
    /\ pool' = peek_pool(pool, fs)
    /\ pc' = "done"
    /\ UNCHANGED <<data, nextAlias, handles, released, dest, disk, call>>

\* the methods a backend class has, its own and those of _Archive
ClassMethods(cls) ==
    {"is_archive_type", "setup", "save", "_get_uuid", "_get_versions",
     "relative_iterdir", "open", "mount"}
    \cup (IF cls = "_ZipArchive" THEN {"extract", "_as_zip_path"} ELSE {})

\* extract resolving the format first, as peek does
extract_ResolvingFormat(fs, d) ==
    LET a == get_archive(fs)
    IN  IF ~a.ok THEN a
        ELSE IF get_format_class(a.val.version, FALSE).val = None
        THEN Raise(futuristic_archive_error(a.val))
        ELSE IF a.val.uuid \in d THEN Raise(Err("FileExistsError", "makedirs", "", ""))
        ELSE IF "extract" \notin ClassMethods(a.val.cls)
        THEN Raise(Err("AttributeError", "extract", "", ""))
        ELSE Return(Path("dest", a.val.uuid))

\* Archiver.extract: what it gives its caller, the destination holding `d`
extract(fs, d) ==
    LET a == get_archive(fs)
    IN  IF ~a.ok THEN a
        \* os.makedirs(dest)
        ELSE IF a.val.uuid \in d THEN Raise(Err("FileExistsError", "makedirs", "", ""))
        \* archive.extract(dest)
        ELSE IF "extract" \notin ClassMethods(a.val.cls)
        THEN Raise(Err("AttributeError", "extract", "", ""))
        ELSE Return(Path("dest", a.val.uuid))

\* Archiver.extract: the directories under the destination after it
extract_dest(fs, d) ==
    LET a == get_archive(fs)
    IN  IF a.ok THEN d \cup {a.val.uuid} ELSE d

\* Archiver.extract: the pool after it
extract_pool(p, fs) == p

Extract(fs) ==
    /\ pc = "idle"
    /\ LET r == extract(fs, dest)
           a == get_archive(fs)
           f == [Frame("extract", fs, "none") EXCEPT
                    !.archive = IF a.ok THEN a.val ELSE NoArchive,
                    !.raised = r.err]
       IN  result' = IF r.ok THEN Returned(f, 0, r.val) ELSE Raised(f, r.err)
    /\ dest' = extract_dest(fs, dest)
    /\ pool' = extract_pool(pool, fs)
    /\ pc' = "done"
    /\ UNCHANGED <<data, nextAlias, handles, released, call, disk>>

----------------------------------------------------------------------------
(* Handle lifetime: references, and the finalizer weakref.finalize         *)
(* registered in Archiver.__init__                                         *)

\* another in-process reference to handle h
Dup(h) ==
    /\ pc = "idle"
    /\ h \in 1..Len(handles)
    /\ handles[h].refs > 0
    /\ handles[h].refs < MaxRefs
    /\ handles' = [handles EXCEPT ![h].refs = @ + 1]
    /\ UNCHANGED <<pool, data, nextAlias, released, dest, disk, pc, call, result>>

\* the finalizer run whenever a reference goes away
FinalizerRuns_EveryDrop(hd) == TRUE

\* whether dropping a reference of handle hd runs its finalizer
FinalizerRuns(hd) == hd.refs = 1 /\ hd.finalizer = "alive"

\* a reference to handle h goes away; the last one runs the finalizer,
\* cache._deallocate(str(process_alias)), once
Drop(h) ==
    /\ pc = "idle"
    /\ h \in 1..Len(handles)
    /\ handles[h].refs > 0
    /\ IF FinalizerRuns(handles[h])
       THEN /\ handles' = [handles EXCEPT ![h].refs = @ - 1, ![h].finalizer = "dead"]
            /\ pool' = pool_remove(pool, handles[h].process_alias)
            /\ data' = garbage_collection(pool', data)
            /\ released' = [released EXCEPT ![handles[h].process_alias] = @ + 1]
       ELSE /\ handles' = [handles EXCEPT ![h].refs = @ - 1]
            /\ UNCHANGED <<pool, data, released>>
    /\ UNCHANGED <<nextAlias, dest, disk, pc, call, result>>

----------------------------------------------------------------------------
(* Reading VERSION, on its own *)

\* the lines a VERSION file is built of here
VersionLines ==
    {<<"QIIME 2">>, <<"archive", "5">>, <<"framework", "2023.2.0">>,
     <<"format", "5">>, <<"junk">>, <<"">>}

\* every VERSION content of 3 to 5 segments over VersionLines
WideVersionContents ==
    UNION {[1..n -> VersionLines] : n \in 3..5}

\* version, framework_version = archive._get_versions(), the archive a
\* directory holding the VERSION content vc
GetVersions(vc) ==
    /\ pc = "idle"
    /\ LET fs == DirOf(U1, vc)
           v == Archive_get_versions(fs, U1)
           f == Frame("_get_versions", fs, "none")
       IN  result' = IF v.ok
                     THEN Returned([f EXCEPT !.archive =
                                       [NoArchive EXCEPT !.version = v.val[1],
                                                         !.framework_version = v.val[2]]],
                                   0, NoPathValue)
                     ELSE Raised([f EXCEPT !.raised = v.err], v.err)
    /\ pc' = "done"
    /\ UNCHANGED <<pool, data, nextAlias, handles, released, dest, disk, call>>

----------------------------------------------------------------------------
(* Constructing backends, on their own *)

\* every ZIP file and directory built of the names and the VERSION contents
BackendPaths ==
    {NoPath, PlainFile}
    \cup {ZipOf(roots, vc) : roots \in SUBSET RootNames, vc \in VersionContents \cup {NoFile}}
    \cup {DirOf(name, vc) : name \in RootNames, vc \in VersionContents \cup {NoFile}}

\* archive = Archiver.get_archive(filepath)
GetArchive(fs) ==
    /\ pc = "idle"
    /\ LET a == get_archive(fs)
           f == Frame("get_archive", fs, "none")
       IN  result' = IF a.ok THEN Returned([f EXCEPT !.archive = a.val], 0, NoPathValue)
                     ELSE Raised([f EXCEPT !.raised = a.err], a.err)
    /\ pc' = "done"
    /\ UNCHANGED <<pool, data, nextAlias, handles, released, dest, disk, call>>

\* archive = ArchiveCheck(path), for a directory
NewArchiveCheck(fs) ==
    /\ pc = "idle"
    /\ fs.kind = "dir"
    /\ LET a == Archive_init("ArchiveCheck", fs)
           f == Frame("ArchiveCheck", fs, "none")
       IN  result' = IF a.ok THEN Returned([f EXCEPT !.archive = a.val], 0, NoPathValue)
                     ELSE Raised([f EXCEPT !.raised = a.err], a.err)
    /\ pc' = "done"
    /\ UNCHANGED <<pool, data, nextAlias, handles, released, dest, disk, call>>

----------------------------------------------------------------------------
Init ==
    /\ pool = {}
    /\ data = {}
    /\ nextAlias = 1
    /\ handles = <<>>
    /\ released = [k \in AliasKeys |-> 0]
    /\ dest = {}
    /\ disk = NoDisk
    /\ pc = "idle"
    /\ call = NoCall
    /\ result = NoCall

Next ==
    \/ \E fs \in Paths, fail \in LoadFails : LoadCall(fs, fail)
    \/ LoadAllocate
    \/ LoadResolve
    \/ LoadMount
    \/ LoadRename
    \/ LoadConstruct
    \/ LoadExcept
    \/ \E u \in {U1, U2}, fail \in FromDataFails : FromDataCall(u, fail)
    \/ FromDataSetup
    \/ FromDataWrite
    \/ FromDataRename
    \/ FromDataConstruct
    \/ FromDataExcept
    \/ \E fs \in Paths, fail \in LoadRawFails : LoadRawCall(fs, fail)
    \/ LoadRawAlias
    \/ LoadRawResolve
    \/ LoadRawConstruct
    \/ \E fs \in Paths, fail \in PeekFails : Peek(fs, fail)
    \/ \E h \in 1..MaxAlias : Dup(h)
    \/ \E h \in 1..MaxAlias : Drop(h)
    \/ Deliver

\* the lifecycle: load, from_data, load_raw, peek and the handles' lifetime
Spec == Init /\ [][Next]_vars

\* extract, with the cache empty or holding one loaded artifact
InitExtract ==
    /\ \/ /\ pool = {}
          /\ data = {}
          /\ nextAlias = 1
          /\ handles = <<>>
       \/ /\ pool = {AliasKey(U1, 1)}
          /\ data = {U1}
          /\ nextAlias = 2
          /\ handles = <<Archiver_init(Path("data", U1), AliasKey(U1, 1), "5", U1)>>
    /\ released = [k \in AliasKeys |-> 0]
    /\ dest = {}
    /\ disk = NoDisk
    /\ pc = "idle"
    /\ call = NoCall
    /\ result = NoCall

NextExtract ==
    \/ \E fs \in Paths \cup {DirOf(U2, VGood5), ZipOf({U2}, VFuture)} : Extract(fs)
    \/ Deliver

SpecExtract == InitExtract /\ [][NextExtract]_vars

NextBackend ==
    \/ \E fs \in BackendPaths : GetArchive(fs)
    \/ \E fs \in BackendPaths : NewArchiveCheck(fs)
    \/ Deliver

\* the construction of backends over every file of BackendPaths
SpecBackend == Init /\ [][NextBackend]_vars

NextVersion ==
    \/ \E vc \in WideVersionContents : GetVersions(vc)
    \/ Deliver

\* _get_versions over every content of WideVersionContents
SpecVersion == Init /\ [][NextVersion]_vars

----------------------------------------------------------------------------
(* validate_checksums, on its own *)

\* self._fmt.CHECKSUM_FILE
CHECKSUM_FILE == "checksums.md5"

\* the files under a root directory, and their digests
ChecksumPaths == {"data/a", "data/b", CHECKSUM_FILE}
Digests == {"d1", "d2"}

\* md5sum_directory(root_dir) of every root directory: path -> digest
DirectorySums == UNION {[S -> Digests] : S \in SUBSET ChecksumPaths}

\* the lines a manifest may hold, each a (path, digest) pair once parsed by
\* from_checksum_format
MaxManifestLines == 2
ManifestLines ==
    UNION {[1..n -> ChecksumPaths \X Digests] : n \in 0..MaxManifestLines}

\* dict(pairs): the last pair of a key gives its value
dict(pairs) ==
    [k \in {pairs[i][1] : i \in 1..Len(pairs)} |->
        pairs[CHOOSE i \in 1..Len(pairs) :
                 /\ pairs[i][1] = k
                 /\ \A j \in (i + 1)..Len(pairs) : pairs[j][1] # k][2]]

ChecksumDiff(added, removed, changed) ==
    [added |-> added, removed |-> removed, changed |-> changed]

\* validate_checksums keeping the manifest file among the observed files
validate_checksums_NoFilter(fmt, sums, lines) ==
    IF fmt # "5" THEN ChecksumDiff(<<>>, <<>>, <<>>)
    ELSE LET obs == sums
             exp == dict(lines)
         IN  ChecksumDiff([x \in DOMAIN obs \ DOMAIN exp |-> obs[x]],
                          [x \in DOMAIN exp \ DOMAIN obs |-> exp[x]],
                          [x \in {y \in DOMAIN exp \cap DOMAIN obs : exp[y] # obs[y]}
                              |-> <<exp[x], obs[x]>>])

\* Archiver.validate_checksums, of a handle whose format is of version fmt,
\* whose root directory sums to `sums` and whose manifest holds `lines`
validate_checksums(fmt, sums, lines) ==
    IF fmt # "5" THEN ChecksumDiff(<<>>, <<>>, <<>>)
    ELSE LET obs == [x \in DOMAIN sums \ {CHECKSUM_FILE} |-> sums[x]]
             exp == dict(lines)
         IN  ChecksumDiff([x \in DOMAIN obs \ DOMAIN exp |-> obs[x]],
                          [x \in DOMAIN exp \ DOMAIN obs |-> exp[x]],
                          [x \in {y \in DOMAIN exp \cap DOMAIN obs : exp[y] # obs[y]}
                              |-> <<exp[x], obs[x]>>])

ValidateChecksums(fmt, sums, lines) ==
    /\ pc = "idle"
    /\ result' = Returned(Frame("validate_checksums",
                                [fmt |-> fmt, sums |-> sums, lines |-> lines], "none"),
                          0, validate_checksums(fmt, sums, lines))
    /\ pc' = "done"
    /\ UNCHANGED <<pool, data, nextAlias, handles, released, dest, disk, call>>

NextChecksum ==
    \/ \E fmt \in {"4", "5"}, sums \in DirectorySums, lines \in ManifestLines :
          ValidateChecksums(fmt, sums, lines)
    \/ Deliver

\* validate_checksums over every directory and manifest of the bounds
SpecChecksum == Init /\ [][NextChecksum]_vars

----------------------------------------------------------------------------
(* _ZipArchive.save, extract and mount, and _NoOpArchive.mount, on the files *)
(* around a destination.  A location is the sequence of path components of *)
(* a file below the destination's parent directory; one that begins with   *)
(* `..` lies outside that directory.                                        *)

DotDot == <<".", ".">>
SubDir == <<"s", "ub">>
EvilName == <<"e", "vil">>

\* whether an entry name, as a string, starts with str(uuid)
EntryStartsWith(n, uuid) ==
    /\ Len(n) > 0
    /\ Len(uuid) <= Len(n[1])
    /\ SubSeq(n[1], 1, Len(uuid)) = uuid

\* the bytes of the file at `relpath`: VERSION holds a VERSION content, every
\* other file bytes of its own
ContentAt(relpath) ==
    IF relpath[Len(relpath)] = VERSION_FILE THEN VGood5 ELSE relpath

\* the files a source directory may hold besides VERSION
TreeFiles ==
    {<<DataName>>, <<HiddenFile>>, <<HiddenName, DataName>>,
     <<SubDir, DataName>>, <<SubDir, HiddenFile>>, <<SubDir, HiddenName, DataName>>}

\* the source directories given to save: relpath -> bytes
SourceTrees ==
    {[r \in S \cup {<<VERSION_FILE>>} |-> ContentAt(r)] : S \in SUBSET TreeFiles}

\* entries a ZIP file not written by save may hold besides <uuid>/VERSION and
\* <uuid>/data
CraftedEntries ==
    {<<U1, DotDot, DotDot, EvilName>>, <<DotDot, EvilName>>,
     <<HiddenName, DataName>>, <<U1, DotDot, U2, VERSION_FILE>>}

CraftedZips ==
    {[kind |-> "zip", name |-> <<"a", ".qza">>,
      entries |-> [n \in {<<U1, VERSION_FILE>>, <<U1, DataName>>} \cup E |-> ContentAt(n)]]
        : E \in SUBSET CraftedEntries}

\* save walking into hidden directories
ZipArchive_save_NoPrune(tree, source) ==
    [kind |-> "zip", name |-> <<"a", ".qza">>,
     entries |-> [n \in {<<source>> \o r : r \in {q \in DOMAIN tree :
                                  ~StartsWithDot(q[Len(q)])}}
                    |-> tree[Tail(n)]]]

\* _ZipArchive.save(source, destination): the ZIP file written, `tree` the
\* files under the directory named `source`
ZipArchive_save(tree, source) ==
    [kind |-> "zip", name |-> <<"a", ".qza">>,
     entries |-> [n \in {<<source>> \o r : r \in {q \in DOMAIN tree :
                                  \A i \in 1..Len(q) : ~StartsWithDot(q[i])}}
                    |-> tree[Tail(n)]]]

\* where the operating system puts a file written at the path `n`
RECURSIVE Normalize(_)
Normalize(n) ==
    IF n = <<>> THEN <<>>
    ELSE LET init == Normalize(SubSeq(n, 1, Len(n) - 1))
             c == n[Len(n)]
         IN  IF c # DotDot THEN Append(init, c)
             ELSE IF init # <<>> /\ init[Len(init)] # DotDot
             THEN SubSeq(init, 1, Len(init) - 1)
             ELSE Append(init, c)

\* zf.extract joining the entry name to the parent as it is stored
ZipExtractTarget_AsStored(n) == Normalize(n)

\* zf.extract(name, path=filepath.parent): the location written; it drops the
\* components '', '.' and '..' of the name
ZipExtractTarget(n) ==
    Normalize(SelectSeq(n, LAMBDA c : c \notin {<<>>, <<".">>, DotDot}))

\* _ZipArchive.extract(filepath): what it gives its caller
ZipArchive_extract(a, fs, filepath) ==
    IF filepath # a.uuid THEN Raise(Err("AssertionError", "", "", ""))
    ELSE Return(<<filepath>>)

\* _ZipArchive.extract(filepath): the files after it
ZipArchive_extract_files(a, fs, filepath, files) ==
    IF filepath # a.uuid THEN files
    ELSE LET names == {n \in DOMAIN fs.entries : EntryStartsWith(n, a.uuid)}
             written == {ZipExtractTarget(n) : n \in names}
         IN  [l \in DOMAIN files \cup written |->
                 IF l \in written
                 THEN fs.entries[CHOOSE n \in names : ZipExtractTarget(n) = l]
                 ELSE files[l]]

ArchiveRecord(root, version_fp, uuid, version, framework_version) ==
    [root |-> root, version_fp |-> version_fp, uuid |-> uuid,
     version |-> version, framework_version |-> framework_version]

\* mount extracting whether or not VERSION is there
ZipArchive_mount_extracts_Always(filepath, files) == TRUE

\* _ZipArchive.mount: whether it calls extract
ZipArchive_mount_extracts(filepath, files) ==
    <<filepath, VERSION_FILE>> \notin DOMAIN files

\* _ZipArchive.mount(filepath) and _NoOpArchive.mount(path): what it gives
\* its caller
Archive_mount(a, fs, filepath, files) ==
    LET rec == ArchiveRecord(<<filepath>>, <<filepath, VERSION_FILE>>,
                             a.uuid, a.version, a.framework_version)
    IN  IF a.cls = "_ZipArchive" /\ ZipArchive_mount_extracts(filepath, files)
        THEN LET e == ZipArchive_extract(a, fs, filepath)
             IN  IF e.ok THEN Return(rec) ELSE e
        ELSE Return(rec)

\* _ZipArchive.mount(filepath) and _NoOpArchive.mount(path): the files after it
Archive_mount_files(a, fs, filepath, files) ==
    IF a.cls = "_ZipArchive" /\ ZipArchive_mount_extracts(filepath, files)
    THEN ZipArchive_extract_files(a, fs, filepath, files)
    ELSE files

\* the backend calls made on one destination
MaxCalls == 2

\* _ZipArchive.save(source, destination) of the source directory at hand
SaveTree ==
    /\ pc = "idle"
    /\ disk.fs.kind = "none"
    /\ DOMAIN disk.tree # {}
    /\ disk' = [disk EXCEPT !.fs = ZipArchive_save(disk.tree, U1)]
    /\ UNCHANGED <<pool, data, nextAlias, handles, released, dest, pc, call, result>>

\* archive.mount(filepath), archive = get_archive of the file at hand
MountArchive ==
    /\ pc = "idle"
    /\ Len(disk.calls) < MaxCalls
    /\ get_archive(disk.fs).ok
    /\ LET a == get_archive(disk.fs).val
           r == Archive_mount(a, disk.fs, disk.filepath, disk.files)
       IN  disk' = [disk EXCEPT
                       !.files = Archive_mount_files(a, disk.fs, disk.filepath, disk.files),
                       !.calls = Append(@, [op |-> "mount", ok |-> r.ok, err |-> r.err,
                                            rec |-> r.val,
                                            extracted |->
                                                /\ a.cls = "_ZipArchive"
                                                /\ ZipArchive_mount_extracts(disk.filepath,
                                                                             disk.files)
                                                /\ r.ok])]
    /\ UNCHANGED <<pool, data, nextAlias, handles, released, dest, pc, call, result>>

\* archive.extract(filepath), archive the _ZipArchive of the file at hand
ExtractArchive ==
    /\ pc = "idle"
    /\ Len(disk.calls) < MaxCalls
    /\ get_archive(disk.fs).ok
    /\ get_archive(disk.fs).val.cls = "_ZipArchive"
    /\ LET a == get_archive(disk.fs).val
           r == ZipArchive_extract(a, disk.fs, disk.filepath)
       IN  disk' = [disk EXCEPT
                       !.files = ZipArchive_extract_files(a, disk.fs, disk.filepath, disk.files),
                       !.calls = Append(@, [op |-> "extract", ok |-> r.ok, err |-> r.err,
                                            rec |-> r.val, extracted |-> r.ok])]
    /\ UNCHANGED <<pool, data, nextAlias, handles, released, dest, pc, call, result>>

\* what a destination named d may hold before the first call on it
InitialFiles(d) ==
    {[l \in S |-> IF l[2] = VERSION_FILE THEN VGood0 ELSE <<<<"old">>>>] :
        S \in {{}, {<<d, DataName>>}, {<<d, VERSION_FILE>>, <<d, DataName>>}}}

\* a ZIP file or a directory at hand, or a source directory to save, and a
\* destination that is empty, partly written or already mounted
InitFiles ==
    /\ pool = {}
    /\ data = {}
    /\ nextAlias = 1
    /\ handles = <<>>
    /\ released = [k \in AliasKeys |-> 0]
    /\ dest = {}
    /\ pc = "idle"
    /\ call = NoCall
    /\ result = NoCall
    /\ \E d \in {U1, U2} :
       \E files \in InitialFiles(d) :
          \/ \E fs \in CraftedZips \cup {DirOf(U1, VGood5)} :
                disk = [fs |-> fs, tree |-> <<>>, filepath |-> d,
                        files |-> files, calls |-> <<>>]
          \/ \E tree \in SourceTrees :
                disk = [fs |-> NoPath, tree |-> tree, filepath |-> d,
                        files |-> files, calls |-> <<>>]

NextFiles ==
    \/ SaveTree
    \/ MountArchive
    \/ ExtractArchive

\* save, extract and mount over the ZIP files, source directories and
\* destinations of InitFiles
SpecFiles == InitFiles /\ [][NextFiles]_vars

----------------------------------------------------------------------------
(* The claims *)

LoadOver == pc = "done" /\ result.op = "load"
FromDataOver == pc = "done" /\ result.op = "from_data"

\* C1: when load fails at any failure point, nothing the cache gave this call
\* is left in the pool once the error has propagated: neither the temporary
\* slot of the uuid nor the alias the rename returned.
C1_LoadFailureLeavesNothing ==
    (LoadOver /\ result.status = "raised")
        => /\ result.made \cap pool = {}
           /\ (result.archive # NoArchive => TmpSlot(result.archive.uuid) \notin pool)

\* a load that failed after the rename had returned its alias
C1_Witness ==
    /\ LoadOver /\ result.status = "raised" /\ result.fail = "construct"
    /\ result.hasAlias /\ result.process_alias \in result.made

\* C2: when load returns a handle, the uuid has its stable working copy, the
\* temporary slot is gone, of what the cache gave this call exactly the alias
\* remains, and the handle holds the stable path and that alias.
C2_LoadSuccessBindsStable ==
    (LoadOver /\ result.status = "returned")
        => LET u == result.archive.uuid
               hd == handles[result.handle]
           IN  /\ u \in data
               /\ TmpSlot(u) \notin pool
               /\ result.made \cap pool = {hd.process_alias}
               /\ hd.process_alias.kind = "alias" /\ hd.process_alias.uuid = u
               /\ hd.path = Path("data", u)

\* a second load of an artifact whose first handle is still held
C2_Witness ==
    /\ LoadOver /\ result.status = "returned" /\ result.handle = 2
    /\ handles[1].uuid = result.archive.uuid /\ handles[1].refs > 0

\* C3: when from_data fails at any failure point, nothing the cache gave this
\* call is left in the pool: neither the temporary slot of the fresh uuid nor
\* the alias the rename returned.
C3_FromDataFailureLeavesNothing ==
    (FromDataOver /\ result.status = "raised")
        => /\ result.made \cap pool = {}
           /\ TmpSlot(result.archive.uuid) \notin pool
           /\ \A e \in pool : e.uuid # result.archive.uuid

\* a from_data that failed after the rename had returned its alias
C3_Witness ==
    /\ FromDataOver /\ result.status = "raised" /\ result.fail = "construct"
    /\ result.hasAlias /\ result.process_alias \in result.made

\* C4: the error a failed load or from_data gives its caller is the error
\* first raised in it, and a call in which an error was raised does not return.
C4_OriginalErrorReraised ==
    (LoadOver \/ FromDataOver)
        => /\ (result.status = "raised" => result.err = result.raised /\ result.err # NoErr)
           /\ (result.raised # NoErr => result.status = "raised")
           /\ (result.status = "raised" /\ result.raised.type = "OSError"
                 => result.err = Injected(result.fail))

\* a load whose rename failed, the cleanup run
C4_Witness ==
    /\ LoadOver /\ result.status = "raised" /\ result.fail = "rename"
    /\ result.err = Injected("rename")
    /\ result.trace[Len(result.trace)] = "remove_tmp"

\* C5: cache._deallocate is invoked for a handle's alias once when its last
\* reference is gone, not while a reference is held, and never a second time;
\* it is invoked for nothing else.
C5_ReleasedExactlyOnce ==
    /\ \A h \in 1..Len(handles) :
          released[handles[h].process_alias] = (IF handles[h].refs = 0 THEN 1 ELSE 0)
    /\ \A k \in AliasKeys :
          released[k] > 0 => \E h \in 1..Len(handles) : handles[h].process_alias = k

\* one handle released while another, duplicated, is held
C5_Witness ==
    \E h, g \in 1..Len(handles) :
        /\ handles[h].refs = 0 /\ released[handles[h].process_alias] = 1
        /\ handles[g].refs = 2 /\ released[handles[g].process_alias] = 0

\* C6: peek leaves the cache as it was, both when it returns the metadata and
\* when the archive declares an unregistered version, which it raises for.
C6_PeekLeavesCache ==
    [][(pc = "idle" /\ pc' = "done" /\ result'.op = "peek")
          => /\ pool' = pool /\ data' = data /\ nextAlias' = nextAlias
             /\ (result'.archive # NoArchive
                   /\ result'.archive.version \notin DOMAIN FORMAT_REGISTRY
                 => result'.status = "raised"
                    /\ result'.err = futuristic_archive_error(result'.archive))]_vars

\* a peek that returned metadata while the cache held allocations
C6_Witness ==
    /\ pc = "done" /\ result.op = "peek" /\ result.status = "returned"
    /\ pool # {}

\* the framework version the VERSION file of fs declares
DeclaredFramework(fs) ==
    LET n == CHOOSE m \in DOMAIN fs.entries : m[Len(m)] = VERSION_FILE
    IN  fs.entries[n][3][2]

\* C7: get_format_class gives None for an unregistered version, and peek,
\* load and load_raw then raise the error naming the framework version the
\* archive declares; none of them returns or makes a handle.
C7_UnregisteredVersion ==
    /\ \A v \in {"6", "99"}, b \in BOOLEAN : get_format_class(v, b) = Return(None)
    /\ (pc = "done" /\ result.op \in {"peek", "load", "load_raw"}
          /\ result.archive # NoArchive
          /\ result.archive.version \notin DOMAIN FORMAT_REGISTRY
          /\ result.fail \notin {"allocate", "alias"})
        => /\ result.status = "raised"
           /\ result.err.type = "ValueError"
           /\ result.err.a1 = DeclaredFramework(result.fs)
           /\ result.handle = 0
           /\ \A h \in 1..Len(handles) : handles[h].process_alias \notin result.made

\* a load of an archive of version 99, which raised naming its framework
C7_Witness ==
    /\ LoadOver /\ result.archive.version = "99" /\ result.status = "raised"
    /\ result.err.a1 = "2099.1.0"

\* C8: extract of a ZIP archive leaves the cache as it was and, the
\* destination not yet holding the uuid, returns destination/<uuid> whatever
\* version the archive declares.
C8_ExtractZip ==
    [][(pc = "idle" /\ pc' = "done" /\ result'.op = "extract"
          /\ result'.fs.kind = "zip" /\ result'.archive # NoArchive)
          => /\ pool' = pool /\ data' = data /\ nextAlias' = nextAlias
             /\ (result'.archive.uuid \notin dest
                   => /\ result'.status = "returned"
                      /\ result'.value = Path("dest", result'.archive.uuid)
                      /\ result'.archive.uuid \in dest')]_vars

\* an extract of a ZIP archive of version 99 that returned, the cache not empty
C8_Witness ==
    /\ pc = "done" /\ result.op = "extract" /\ result.fs.kind = "zip"
    /\ result.archive.version = "99" /\ result.status = "returned"
    /\ pool # {}

\* C9: extract of a directory artifact, the destination not yet holding the
\* uuid, returns destination/<uuid> as it does for a ZIP archive.
C9_ExtractDirectory ==
    [][(pc = "idle" /\ pc' = "done" /\ result'.op = "extract"
          /\ result'.fs.kind = "dir" /\ result'.archive # NoArchive)
          => (result'.archive.uuid \notin dest
                => /\ result'.status = "returned"
                   /\ result'.value = Path("dest", result'.archive.uuid))]_vars

\* the visible top-level entries of a ZIP file
VisibleRoots(fs) == {r \in {n[1] : n \in DOMAIN fs.entries} : r[1] # "."}

BackendOver == pc = "done" /\ result.op \in {"get_archive", "ArchiveCheck"}

\* C10, as claimed: a backend of either variant is constructed only for exactly
\* one visible root whose name is a version 4 UUID.
C10_EveryBackendChecksRoot ==
    (BackendOver /\ result.status = "returned")
        => /\ is_uuid4(result.archive.uuid)
           /\ (result.fs.kind = "zip" => VisibleRoots(result.fs) = {result.archive.uuid})

\* C10, amended: a _ZipArchive is constructed only for exactly one visible
\* root whose name is a version 4 UUID; a _NoOpArchive and an ArchiveCheck
\* take the name of the directory as the uuid, unchecked.
C10_ZipBackendChecksRoot ==
    (BackendOver /\ result.status = "returned")
        => IF result.archive.cls = "_ZipArchive"
           THEN /\ VisibleRoots(result.fs) = {result.archive.uuid}
                /\ is_uuid4(result.archive.uuid)
           ELSE result.archive.uuid = result.fs.name

\* a _ZipArchive constructed over a ZIP file that also has a hidden root
C10_Witness ==
    /\ BackendOver /\ result.status = "returned" /\ result.archive.cls = "_ZipArchive"
    /\ HiddenName \in ZipArchive_relative_iterdir(result.fs)

\* the VERSION content a file holds
VersionContentOf(fs) == fs.entries[<<VERSION_FILE>>]

\* whether a VERSION content is the three-line template exactly
IsTemplate(vc) ==
    /\ Len(vc) = 4
    /\ vc[1] = <<"QIIME 2">>
    /\ Len(vc[2]) = 2 /\ vc[2][1] = "archive"
    /\ Len(vc[3]) = 2 /\ vc[3][1] = "framework"
    /\ vc[4] = <<"">>

\* C11: _get_versions accepts a VERSION content only if it is the template
\* exactly (header, `archive: v`, `framework: f`, an empty last segment);
\* every other content is rejected with the one malformed-VERSION error.
C11_OnlyTemplateAccepted ==
    (pc = "done" /\ result.op = "_get_versions")
        => IF IsTemplate(VersionContentOf(result.fs))
           THEN /\ result.status = "returned"
                /\ result.archive.version = VersionContentOf(result.fs)[2][2]
                /\ result.archive.framework_version = VersionContentOf(result.fs)[3][2]
           ELSE /\ result.status = "raised"
                /\ result.err = MalformedVersion
                /\ result.archive = NoArchive

\* the steps of a call, its cleanup calls left out
Steps(f) == SelectSeq(f.trace, LAMBDA e : e \notin {"remove_tmp", "remove_alias"})

\* the cleanup calls of a call
Cleanup(f) == SelectSeq(f.trace, LAMBDA e : e \in {"remove_tmp", "remove_alias"})

\* the order of the steps of a load and of a from_data that succeed
StepOrder(op) ==
    IF op = "load" THEN <<"allocate", "resolve", "mount", "rename", "construct">>
    ELSE <<"allocate", "setup", "write", "rename", "construct">>

IsPrefix(a, b) == Len(a) <= Len(b) /\ a = SubSeq(b, 1, Len(a))

\* C16: a load or from_data takes its steps in the order allocate,
\* materialize (resolve and mount, or setup and write), rename, construct;
\* it returns a handle only after all of them, and one that fails ends with
\* its cleanup and no handle made, neither while it runs nor once it is over.
C16_StepOrder ==
    /\ (LoadOver \/ FromDataOver)
        => /\ IsPrefix(Steps(result), StepOrder(result.op))
           /\ (result.status = "returned"
                 <=> Steps(result) = StepOrder(result.op))
           /\ (result.status = "returned" <=> result.handle # 0)
           /\ (result.status = "raised"
                 => /\ \A h \in 1..Len(handles) :
                          handles[h].process_alias \notin result.made
                    /\ (Steps(result) # <<>>
                          => /\ Cleanup(result) # <<>>
                             /\ result.made \cap pool = {}))
    /\ (call.op \in {"load", "from_data"})
        => /\ IsPrefix(Steps(call), StepOrder(call.op))
           /\ \A h \in 1..Len(handles) : handles[h].process_alias \notin call.made

\* a load that failed at its rename, every step before it taken
C16_Witness ==
    /\ LoadOver /\ result.status = "raised" /\ result.fail = "rename"
    /\ Steps(result) = <<"allocate", "resolve", "mount">>

Count(seq, e) == Len(SelectSeq(seq, LAMBDA x : x = e))

\* C17: in the cleanup of a failed load or from_data the temporary slot is
\* removed once; when the rename raised (or was not reached) no alias is
\* removed; when the rename had returned, its alias is removed once and is
\* gone from the pool.
C17_RenameBoundary ==
    ((LoadOver \/ FromDataOver) /\ result.status = "raised" /\ Steps(result) # <<>>)
        => /\ Count(result.trace, "remove_tmp") = 1
           /\ TmpSlot(result.archive.uuid) \notin pool
           /\ ("rename" \notin {Steps(result)[i] : i \in 1..Len(Steps(result))}
                 => /\ Cleanup(result) = <<"remove_tmp">>
                    /\ ~result.hasAlias
                    /\ result.made = {TmpSlot(result.archive.uuid)})
           /\ ("rename" \in {Steps(result)[i] : i \in 1..Len(Steps(result))}
                 => /\ Count(result.trace, "remove_alias") = 1
                    /\ result.hasAlias
                    /\ result.process_alias \notin pool)

\* a from_data that failed after its rename had returned
C17_Witness ==
    /\ FromDataOver /\ result.status = "raised" /\ result.fail = "construct"
    /\ Cleanup(result) = <<"remove_tmp", "remove_alias">>

\* C18: a load_raw that fails leaves in the pool no alias the cache gave it.
C18_LoadRawFailureLeavesNothing ==
    (pc = "done" /\ result.op = "load_raw" /\ result.status = "raised")
        => result.made \cap pool = {}

\* C19: while a handle is held its alias is in the pool, and its stable
\* working copy exists, whatever other loads of its uuid and other handles do.
C19_LiveHandlesKeepAllocation ==
    \A h \in 1..Len(handles) :
        handles[h].refs > 0
            => /\ handles[h].process_alias \in pool
               /\ (handles[h].path.area = "data" => handles[h].uuid \in data)

\* a load that failed after its rename, a handle of the same uuid held
C19_Witness ==
    /\ LoadOver /\ result.status = "raised" /\ result.hasAlias
    /\ \E h \in 1..Len(handles) :
          /\ handles[h].uuid = result.archive.uuid
          /\ handles[h].refs > 0
          /\ handles[h].path.area = "data"

\* C20: a load whose file fails discovery (get_archive raises) gives that
\* error to its caller with the cache as it was: nothing allocated, no
\* cleanup call made.
C20_DiscoveryFailsBeforeAllocation ==
    [][(pc = "idle" /\ pc' = "done" /\ result'.op = "load")
          => /\ ~get_archive(result'.fs).ok
             /\ result'.status = "raised"
             /\ result'.err = get_archive(result'.fs).err
             /\ result'.trace = <<>> /\ result'.made = {}
             /\ pool' = pool /\ data' = data /\ nextAlias' = nextAlias]_vars

\* a load of a ZIP file with several roots, the cache holding allocations
C20_Witness ==
    /\ LoadOver /\ result.status = "raised"
    /\ result.err.msg = "multiple root directories"
    /\ pool # {}

\* the observed map of a validate_checksums call: every file under the root
\* but the manifest file
ObservedOf(f) == [x \in DOMAIN f.fs.sums \ {CHECKSUM_FILE} |-> f.fs.sums[x]]

\* the manifest map of a validate_checksums call
ExpectedOf(f) == dict(f.fs.lines)

\* two maps with the same keys and the same values
SameMap(a, b) == DOMAIN a = DOMAIN b /\ \A x \in DOMAIN a : a[x] = b[x]

\* C12: for a format with a manifest, added is obs on the paths not in exp,
\* removed is exp on the paths not in obs, changed pairs (exp[p], obs[p]) on
\* the paths of both whose digests differ; their key sets are pairwise
\* disjoint, and the three are empty exactly when obs = exp.
C12_ChecksumDiff ==
    (pc = "done" /\ result.op = "validate_checksums" /\ result.fs.fmt = "5")
        => LET obs == ObservedOf(result)
               exp == ExpectedOf(result)
               d == result.value
           IN  /\ DOMAIN d.added = {x \in DOMAIN obs : x \notin DOMAIN exp}
               /\ \A x \in DOMAIN d.added : d.added[x] = obs[x]
               /\ DOMAIN d.removed = {x \in DOMAIN exp : x \notin DOMAIN obs}
               /\ \A x \in DOMAIN d.removed : d.removed[x] = exp[x]
               /\ DOMAIN d.changed =
                     {x \in DOMAIN exp : x \in DOMAIN obs /\ exp[x] # obs[x]}
               /\ \A x \in DOMAIN d.changed : d.changed[x] = <<exp[x], obs[x]>>
               /\ DOMAIN d.added \cap DOMAIN d.removed = {}
               /\ DOMAIN d.added \cap DOMAIN d.changed = {}
               /\ DOMAIN d.removed \cap DOMAIN d.changed = {}
               /\ ((DOMAIN d.added = {} /\ DOMAIN d.removed = {} /\ DOMAIN d.changed = {})
                     <=> SameMap(obs, exp))

\* a directory holding its manifest file, with one file changed and one added
C12_Witness ==
    /\ pc = "done" /\ result.op = "validate_checksums" /\ result.fs.fmt = "5"
    /\ CHECKSUM_FILE \in DOMAIN result.fs.sums
    /\ DOMAIN result.value.changed # {}
    /\ DOMAIN result.value.added # {}

\* the mount destination, and its VERSION file
Destination == <<disk.filepath>>
DestinationVersion == <<disk.filepath, VERSION_FILE>>

\* a step that is a call of mount
IsMountStep ==
    /\ Len(disk'.calls) = Len(disk.calls) + 1
    /\ disk'.calls[Len(disk'.calls)].op = "mount"

\* whether some call so far has extracted the ZIP file to the destination
Extracted == \E i \in 1..Len(disk.calls) : disk.calls[i].extracted

\* C13: a mount on a destination that holds VERSION extracts nothing, leaves
\* every file as it was and returns; a mount that returns gives the record
\* (destination, destination/VERSION, uuid, version, framework_version); of
\* two mounts on a destination, the first returning, the second returns the
\* same record and extracts nothing.
C13_MountIdempotent ==
    /\ [][IsMountStep
            => LET c == disk'.calls[Len(disk'.calls)]
                   a == get_archive(disk.fs).val
               IN  /\ (DestinationVersion \in DOMAIN disk.files
                         => /\ c.ok
                            /\ ~c.extracted
                            /\ disk'.files = disk.files)
                   /\ (c.ok => c.rec = ArchiveRecord(Destination, DestinationVersion,
                                                     a.uuid, a.version,
                                                     a.framework_version))]_vars
    /\ [](\A i, j \in 1..Len(disk.calls) :
            (i < j /\ disk.calls[i].op = "mount" /\ disk.calls[j].op = "mount"
               /\ disk.calls[i].ok)
                => /\ disk.calls[j].ok
                   /\ disk.calls[j].rec = disk.calls[i].rec
                   /\ ~disk.calls[j].extracted)

\* two mounts of a ZIP file on an empty destination, the first extracting
C13_Witness ==
    /\ Len(disk.calls) = 2
    /\ disk.calls[1].op = "mount" /\ disk.calls[1].extracted
    /\ disk.calls[2].op = "mount" /\ disk.calls[2].ok

\* the files of the source directory that are not hidden nor under a hidden
\* directory
VisibleFiles(tree) ==
    {r \in DOMAIN tree : \A i \in 1..Len(r) : ~StartsWithDot(r[i])}

\* C14: the ZIP file save writes holds no entry with a hidden component, and
\* extracting it puts at the destination the files of the source that are
\* neither hidden nor under a hidden directory, with the source's bytes, and
\* no other file of the source.
C14_SaveExtractRoundTrip ==
    (DOMAIN disk.tree # {} /\ disk.fs.kind = "zip")
        => /\ \A n \in DOMAIN disk.fs.entries :
                 /\ n[1] = U1
                 /\ \A i \in 1..Len(n) : ~StartsWithDot(n[i])
           /\ Extracted
                => /\ \A r \in VisibleFiles(disk.tree) :
                         /\ <<U1>> \o r \in DOMAIN disk.files
                         /\ disk.files[<<U1>> \o r] = disk.tree[r]
                   /\ \A r \in DOMAIN disk.tree \ VisibleFiles(disk.tree) :
                         <<U1>> \o r \notin DOMAIN disk.files
                   /\ \A l \in DOMAIN disk.files :
                         \/ l \in {<<U1>> \o r : r \in VisibleFiles(disk.tree)}
                         \/ l \in {DestinationVersion, <<disk.filepath, DataName>>}

\* a source directory holding a file below a hidden directory and a hidden
\* file, saved and extracted
C14_Witness ==
    /\ Extracted
    /\ <<SubDir, HiddenName, DataName>> \in DOMAIN disk.tree
    /\ <<SubDir, HiddenFile>> \in DOMAIN disk.tree
    /\ <<SubDir, DataName>> \in DOMAIN disk.tree

\* C15: no file is ever at a location outside the destination's parent; the
\* entries of the ZIP file whose name starts with the uuid are written below
\* the parent with their `..` components dropped, the others are not written.
C15_ExtractStaysUnderParent ==
    /\ \A l \in DOMAIN disk.files : l # <<>> /\ l[1] # DotDot
    /\ (disk.fs.kind = "zip" /\ get_archive(disk.fs).ok)
        => \A n \in DOMAIN disk.fs.entries :
              IF EntryStartsWith(n, get_archive(disk.fs).val.uuid)
              THEN Extracted
                      => /\ ZipExtractTarget(n) \in DOMAIN disk.files
                         /\ disk.files[ZipExtractTarget(n)] = disk.fs.entries[n]
                         /\ DotDot \notin {ZipExtractTarget(n)[i] :
                                              i \in 1..Len(ZipExtractTarget(n))}
              ELSE /\ Normalize(n) \notin DOMAIN disk.files
                   /\ ZipExtractTarget(n) \notin DOMAIN disk.files

\* an extracted ZIP file with an entry <uuid>/../../evil and an entry ../evil
C15_Witness ==
    /\ Extracted
    /\ disk.fs.kind = "zip"
    /\ <<U1, DotDot, DotDot, EvilName>> \in DOMAIN disk.fs.entries
    /\ <<DotDot, EvilName>> \in DOMAIN disk.fs.entries

====
